---- MODULE Spec2Model ----
(***************************************************************************)
(* Model of the kitchen-fridge calendar item (src/event.rs) and of the     *)
(* iCal builder (src/ical/builder.rs).                                     *)
(*                                                                         *)
(* Text is a sequence of tokens (a digit, a separator or a whole word).    *)
(* The builder's output is the sequence of RFC 5545 content lines of the   *)
(* document; a line is [name, params, value].  The parameters of a line    *)
(* are kept as the graph of a map keyed by parameter name, as the ics      *)
(* crate keeps them.  Every content line is terminated by CRLF.            *)
(***************************************************************************)
EXTENDS Integers, Sequences, FiniteSets, TLC

VARIABLES item, out, built, op, a, b, c, eqres

vars == <<item, out, built, op, a, b, c, eqres>>

(***************************** bounds **************************************)
MaxClock == 1
MaxRepeatLen == 2
MaxExtras == 2

(***************************** Option<T> ***********************************)
None == <<>>
Some(x) == <<x>>
IsSome(o) == Len(o) = 1
Unwrap(o) == o[1]

SeqsUpTo(S, n) == UNION {[1..k -> S] : k \in 0..n}

(***************************** DateTime<Utc> *******************************)
DateTime(y, mo, d, h, mi, s) ==
  [year |-> y, month |-> mo, day |-> d, hour |-> h, minute |-> mi, second |-> s]

\* Utc::now() when the wall clock shows tick t
UtcNow(t) == DateTime(2024, 1, 1, 0, 0, t)

\* the <<start, end>> pairs given to Event::new
StartEnds ==
  { << DateTime(2024, 1, 1, 0, 0, 0), DateTime(2024, 1, 2, 0, 0, 0) >>,
    << DateTime(2024, 1, 2, 9, 5, 7), DateTime(10000, 12, 31, 23, 59, 59) >> }

(***************************** formatting **********************************)
Digits == <<"0", "1", "2", "3", "4", "5", "6", "7", "8", "9">>
Digit(d) == Digits[d + 1]

RECURSIVE DecDigits(_)
DecDigits(n) ==
  IF n < 10 THEN <<Digit(n)>> ELSE DecDigits(n \div 10) \o <<Digit(n % 10)>>

RECURSIVE ZeroPad(_, _)
ZeroPad(s, w) == IF Len(s) >= w THEN s ELSE ZeroPad(<<"0">> \o s, w)

Pad2(n) == ZeroPad(DecDigits(n), 2)

\* %Y: four digits, zero padded; a sign and at least four digits outside 0..9999
FormatYear(y) ==
  IF y >= 0 /\ y <= 9999
    THEN ZeroPad(DecDigits(y), 4)
    ELSE (IF y < 0 THEN <<"-">> ELSE <<"+">>)
           \o ZeroPad(DecDigits(IF y < 0 THEN 0 - y ELSE y), 4)

format_date(dt) == FormatYear(dt.year) \o Pad2(dt.month) \o Pad2(dt.day)

format_date_time(dt) ==
  FormatYear(dt.year) \o Pad2(dt.month) \o Pad2(dt.day) \o <<"T">>
    \o Pad2(dt.hour) \o Pad2(dt.minute) \o Pad2(dt.second) \o <<"Z">>

RECURSIVE JoinWith(_, _)
JoinWith(ss, sep) ==
  IF Len(ss) = 0 THEN <<>>
  ELSE IF Len(ss) = 1 THEN ss[1]
  ELSE ss[1] \o <<sep>> \o JoinWith(Tail(ss), sep)

(***************************** ics properties ******************************)
NoParams == {}
IcsProperty(name, value) == [name |-> name, params |-> NoParams, value |-> value]
IcsParameter(key, value) == <<key, value>>

\* Property::add / Property::append: insertion into the parameter map
IcsAdd(prop, param) ==
  [prop EXCEPT !.params = {p \in @ : p[1] # param[1]} \cup {param}]

\* Component::add_property
Push(comp, prop) == Append(comp, prop)

\* ICalendar::new("2.0", prod_id), add_event / add_todo, to_string
ICalendar(prod_id, kind, props) ==
  << IcsProperty("BEGIN", <<"VCALENDAR">>),
     IcsProperty("VERSION", <<"2", ".", "0">>),
     IcsProperty("PRODID", prod_id),
     IcsProperty("BEGIN", <<kind>>) >>
  \o props
  \o << IcsProperty("END", <<kind>>),
        IcsProperty("END", <<"VCALENDAR">>) >>

(***************************** Event ***************************************)
\* repeat_string with a separator after every pair
repeat_string_trailing(event) ==
  IF IsSome(event.repeat)
    THEN Some(JoinWith([i \in 1..Len(Unwrap(event.repeat)) |->
                          Unwrap(event.repeat)[i][1] \o <<"=">> \o Unwrap(event.repeat)[i][2]
                            \o <<";">>],
                       ""))
    ELSE None

\* Event::repeat_string
repeat_string(event) ==
  IF IsSome(event.repeat)
    THEN Some(JoinWith([i \in 1..Len(Unwrap(event.repeat)) |->
                          Unwrap(event.repeat)[i][1] \o <<"=">> \o Unwrap(event.repeat)[i][2]],
                       ";"))
    ELSE None

\* equality that compares the recurrence pairs as a set
EventEq_unordered(x, y) ==
  /\ x.uid = y.uid
  /\ x.url = y.url
  /\ x.ical_prod_id = y.ical_prod_id
  /\ x.sync_status = y.sync_status
  /\ x.last_modified = y.last_modified
  /\ x.creation_date = y.creation_date
  /\ x.name = y.name
  /\ x.full_day = y.full_day
  /\ x.start = y.start
  /\ x.end = y.end
  /\ x.location = y.location
  /\ IsSome(x.repeat) = IsSome(y.repeat)
  /\ IsSome(x.repeat) =>
       {Unwrap(x.repeat)[i] : i \in 1..Len(Unwrap(x.repeat))}
         = {Unwrap(y.repeat)[i] : i \in 1..Len(Unwrap(y.repeat))}
  /\ x.description = y.description

\* impl PartialEq for Event
EventEq(x, y) ==
  /\ x.uid = y.uid
  /\ x.url = y.url
  /\ x.ical_prod_id = y.ical_prod_id
  /\ x.sync_status = y.sync_status
  /\ x.last_modified = y.last_modified
  /\ x.creation_date = y.creation_date
  /\ x.name = y.name
  /\ x.full_day = y.full_day
  /\ x.start = y.start
  /\ x.end = y.end
  /\ x.location = y.location
  /\ x.repeat = y.repeat
  /\ x.description = y.description

(***************************** builder *************************************)
PushCreated(comp, creation_date) ==
  IF IsSome(creation_date)
    THEN Push(comp, IcsProperty("CREATED", format_date_time(Unwrap(creation_date))))
    ELSE comp

PushStartEnd(comp, event) ==
  IF event.full_day
    THEN Push(Push(comp,
                   IcsAdd(IcsProperty("DTSTART", format_date(event.start)),
                          IcsParameter("VALUE", <<"DATE">>))),
              IcsAdd(IcsProperty("DTEND", format_date(event.end)),
                     IcsParameter("VALUE", <<"DATE">>)))
    ELSE Push(Push(comp, IcsProperty("DTSTART", format_date_time(event.start))),
              IcsProperty("DTEND", format_date_time(event.end)))

PushOpt(comp, name, opt) ==
  IF IsSome(opt) THEN Push(comp, IcsProperty(name, Unwrap(opt))) ELSE comp

\* build_from_event with DESCRIPTION pushed before LOCATION
build_from_event_descFirst(event) ==
  LET s_last_modified == format_date_time(event.last_modified)
      e0 == << IcsProperty("UID", event.uid), IcsProperty("DTSTAMP", s_last_modified) >>
      e1 == PushCreated(e0, event.creation_date)
      e2 == PushStartEnd(e1, event)
      e3 == Push(e2, IcsProperty("SUMMARY", event.name))
      e4 == Push(e3, IcsProperty("LAST-MODIFIED", s_last_modified))
      e5 == PushOpt(e4, "DESCRIPTION", event.description)
      e6 == PushOpt(e5, "LOCATION", event.location)
      e7 == PushOpt(e6, "RRULE", repeat_string(event))
  IN  ICalendar(event.ical_prod_id, "VEVENT", e7)

build_from_event(event) ==
  LET s_last_modified == format_date_time(event.last_modified)
      e0 == << IcsProperty("UID", event.uid), IcsProperty("DTSTAMP", s_last_modified) >>
      e1 == PushCreated(e0, event.creation_date)
      e2 == PushStartEnd(e1, event)
      e3 == Push(e2, IcsProperty("SUMMARY", event.name))
      e4 == Push(e3, IcsProperty("LAST-MODIFIED", s_last_modified))
      e5 == PushOpt(e4, "LOCATION", event.location)
      e6 == PushOpt(e5, "DESCRIPTION", event.description)
      e7 == PushOpt(e6, "RRULE", repeat_string(event))
  IN  ICalendar(event.ical_prod_id, "VEVENT", e7)


(***************************** Task ****************************************)
\* ical::property::Property -> ics::components::Property
RECURSIVE AddParams(_, _)
AddParams(ics_prop, v) ==
  IF Len(v) = 0 THEN ics_prop
  ELSE AddParams(IcsAdd(ics_prop, IcsParameter(v[1][1], JoinWith(v[1][2], ";"))), Tail(v))

ical_to_ics_property(prop) ==
  LET ics_prop == IF IsSome(prop.value)
                    THEN IcsProperty(prop.name, Unwrap(prop.value))
                    ELSE IcsProperty(prop.name, <<>>)
  IN  IF IsSome(prop.params) THEN AddParams(ics_prop, Unwrap(prop.params)) ELSE ics_prop

\* the completion lines with STATUS:COMPLETED pushed first
PushCompletion_statusFirst(todo, completion_status) ==
  IF completion_status.tag = "Uncompleted"
    THEN Push(todo, IcsProperty("STATUS", <<"NEEDS-ACTION">>))
    ELSE LET t1 == Push(todo, IcsProperty("STATUS", <<"COMPLETED">>))
             t2 == IF IsSome(completion_status.date)
                     THEN Push(t1, IcsProperty("COMPLETED",
                                               format_date_time(Unwrap(completion_status.date))))
                     ELSE t1
         IN  Push(t2, IcsProperty("PERCENT-COMPLETE", <<"100">>))

PushCompletion(todo, completion_status) ==
  IF completion_status.tag = "Uncompleted"
    THEN Push(todo, IcsProperty("STATUS", <<"NEEDS-ACTION">>))
    ELSE LET t1 == Push(todo, IcsProperty("PERCENT-COMPLETE", <<"100">>))
             t2 == IF IsSome(completion_status.date)
                     THEN Push(t1, IcsProperty("COMPLETED",
                                               format_date_time(Unwrap(completion_status.date))))
                     ELSE t1
         IN  Push(t2, IcsProperty("STATUS", <<"COMPLETED">>))

RECURSIVE PushExtras(_, _)
PushExtras(todo, extra) ==
  IF Len(extra) = 0 THEN todo
  ELSE PushExtras(Push(todo, ical_to_ics_property(extra[1])), Tail(extra))

\* build_from_task with CREATED pushed whether or not a creation date is stored
build_from_task_created(task) ==
  LET s_last_modified == format_date_time(task.last_modified)
      t0 == << IcsProperty("UID", task.uid), IcsProperty("DTSTAMP", s_last_modified) >>
      t1 == Push(t0, IcsProperty("CREATED",
                                 IF IsSome(task.creation_date)
                                   THEN format_date_time(Unwrap(task.creation_date))
                                   ELSE s_last_modified))
      t2 == Push(t1, IcsProperty("LAST-MODIFIED", s_last_modified))
      t3 == Push(t2, IcsProperty("SUMMARY", task.name))
      t4 == PushCompletion(t3, task.completion_status)
      t5 == PushExtras(t4, task.extra_parameters)
  IN  ICalendar(task.ical_prod_id, "VTODO", t5)

build_from_task(task) ==
  LET s_last_modified == format_date_time(task.last_modified)
      t0 == << IcsProperty("UID", task.uid), IcsProperty("DTSTAMP", s_last_modified) >>
      t1 == PushCreated(t0, task.creation_date)
      t2 == Push(t1, IcsProperty("LAST-MODIFIED", s_last_modified))
      t3 == Push(t2, IcsProperty("SUMMARY", task.name))
      t4 == PushCompletion(t3, task.completion_status)
      t5 == PushExtras(t4, task.extra_parameters)
  IN  ICalendar(task.ical_prod_id, "VTODO", t5)

build_from(it) ==
  IF it.kind = "Task" THEN build_from_task(it) ELSE build_from_event(it)

(***************************** input domains *******************************)
NoItem == [kind |-> "None"]

Uids == { <<"u1">>, <<"u2">> }
Names == { <<"Buy milk">>, <<"Team", " ", "meeting">> }
SyncStatuses == { "NotSynced", "Synced" }
Locations == { <<"Room 1">> }
Descriptions == { <<"Bring", " ", "notes">> }
RRulePairs == { << <<"FREQ">>, <<"WEEKLY">> >>, << <<"BYDAY">>, <<"MO">> >> }
Repeats == SeqsUpTo(RRulePairs, MaxRepeatLen)

ParentUrl == <<"http://my.calend.ar/id/">>
DefaultProdId == <<"-//", "ORG", "//", "PRODUCT", "//EN">>
OtherProdId == <<"-//", "Other", "//", "Client", "//EN">>
RandomUrl == ParentUrl \o <<"random", ".ics">>

IcalProperty(name, value, params) == [name |-> name, value |-> value, params |-> params]

ExtProps ==
  { IcalProperty("X-CUSTOM", Some(<<"val">>),
                 Some(<< <<"PARAM", << <<"a">>, <<"b">> >> >> >>)),
    IcalProperty("X-EMPTY", None, None),
    IcalProperty("PERCENT-COMPLETE", Some(<<"100">>), None),
    IcalProperty("X-TWO", Some(<<"val">>),
                 Some(<< <<"TZID", << <<"Europe/Paris">> >> >>, <<"PARAM", <<>> >> >>)),
    IcalProperty("X-CUSTOM", Some(<<"val">>),
                 Some(<< <<"PARAM", << <<"a">> >> >>, <<"PARAM", << <<"b">> >> >> >>)) }

Extras == SeqsUpTo(ExtProps, MaxExtras)

EventExtProps ==
  { IcalProperty("X-CUSTOM", Some(<<"val">>),
                 Some(<< <<"PARAM", << <<"a">>, <<"b">> >> >> >>)),
    IcalProperty("X-EMPTY", None, None) }

EventExtras == SeqsUpTo(EventExtProps, MaxExtras)

CompletionStatuses ==
  { [tag |-> "Uncompleted", date |-> None] }
    \cup { [tag |-> "Completed", date |-> d] : d \in {None, Some(UtcNow(1)), Some(UtcNow(0))} }

(***************************** operations **********************************)
Init ==
  /\ item = NoItem
  /\ out = <<>>
  /\ built = FALSE
  /\ op = "init"
  /\ a = NoItem /\ b = NoItem /\ c = NoItem
  /\ eqres = <<>>

\* Event::new; the wall clock shows tick 0 at the first reading and tick t2 at
\* the second
EventNew(uid, name, full_day, start, end, sync_status, t2, join_ok) ==
  /\ item = NoItem
  /\ item' = [ kind |-> "Event",
               uid |-> uid,
               url |-> IF join_ok THEN ParentUrl \o uid \o <<".ics">> ELSE RandomUrl,
               sync_status |-> sync_status,
               ical_prod_id |-> DefaultProdId,
               creation_date |-> Some(UtcNow(0)),
               last_modified |-> UtcNow(t2),
               name |-> name,
               full_day |-> full_day,
               start |-> start,
               end |-> end,
               location |-> None,
               repeat |-> None,
               description |-> None,
               extra_parameters |-> <<>> ]
  /\ op' = "new"
  /\ out' = <<>> /\ built' = FALSE
  /\ UNCHANGED <<a, b, c, eqres>>

\* an Event rebuilt from server data: any creation date, product id and
\* extension properties
EventParsed(creation_date, extra) ==
  /\ item = NoItem
  /\ item' = [ kind |-> "Event",
               uid |-> <<"u1">>,
               url |-> ParentUrl \o <<"u1">> \o <<".ics">>,
               sync_status |-> "Synced",
               ical_prod_id |-> OtherProdId,
               creation_date |-> creation_date,
               last_modified |-> UtcNow(0),
               name |-> <<"Team", " ", "meeting">>,
               full_day |-> TRUE,
               start |-> DateTime(2024, 1, 1, 0, 0, 0),
               end |-> DateTime(2024, 1, 2, 0, 0, 0),
               location |-> None,
               repeat |-> None,
               description |-> None,
               extra_parameters |-> extra ]
  /\ op' = "parsed"
  /\ out' = <<>> /\ built' = FALSE
  /\ UNCHANGED <<a, b, c, eqres>>

\* a Task as the builder reads it through its accessors
TaskParsed(uid, name, last_modified, creation_date, completion_status, extra) ==
  /\ item = NoItem
  /\ item' = [ kind |-> "Task",
               uid |-> uid,
               ical_prod_id |-> DefaultProdId,
               creation_date |-> creation_date,
               last_modified |-> last_modified,
               name |-> name,
               completion_status |-> completion_status,
               extra_parameters |-> extra ]
  /\ op' = "parsed"
  /\ out' = <<>> /\ built' = FALSE
  /\ UNCHANGED <<a, b, c, eqres>>

set_sync_status(new_status) ==
  /\ item.kind = "Event"
  /\ item' = [item EXCEPT !.sync_status = new_status]
  /\ op' = "set_sync_status"
  /\ out' = <<>> /\ built' = FALSE
  /\ UNCHANGED <<a, b, c, eqres>>

\* set_location that also stamps last_modified
set_location_bump(location) ==
  /\ item.kind = "Event"
  /\ item' = [item EXCEPT !.location = Some(location),
                          !.last_modified = UtcNow(MaxClock + 1)]
  /\ op' = "set_location"
  /\ out' = <<>> /\ built' = FALSE
  /\ UNCHANGED <<a, b, c, eqres>>

set_location(location) ==
  /\ item.kind = "Event"
  /\ item' = [item EXCEPT !.location = Some(location)]
  /\ op' = "set_location"
  /\ out' = <<>> /\ built' = FALSE
  /\ UNCHANGED <<a, b, c, eqres>>

set_repeat(repeat) ==
  /\ item.kind = "Event"
  /\ item' = [item EXCEPT !.repeat = Some(repeat)]
  /\ op' = "set_repeat"
  /\ out' = <<>> /\ built' = FALSE
  /\ UNCHANGED <<a, b, c, eqres>>

set_description(description) ==
  /\ item.kind = "Event"
  /\ item' = [item EXCEPT !.description = Some(description)]
  /\ op' = "set_description"
  /\ out' = <<>> /\ built' = FALSE
  /\ UNCHANGED <<a, b, c, eqres>>

\* build_from(&item); out holds the document built from the item as it is now
BuildFrom ==
  /\ item.kind # "None"
  /\ out' = build_from(item)
  /\ built' = TRUE
  /\ op' = "build_from"
  /\ UNCHANGED <<item, a, b, c, eqres>>

Next ==
  \/ \E uid \in Uids, name \in {<<"Team", " ", "meeting">>}, full_day \in BOOLEAN,
        se \in StartEnds, sync_status \in SyncStatuses, t2 \in 0..MaxClock,
        join_ok \in BOOLEAN :
       EventNew(uid, name, full_day, se[1], se[2], sync_status, t2, join_ok)
  \/ \E creation_date \in {None, Some(UtcNow(0))}, extra \in EventExtras :
       EventParsed(creation_date, extra)
  \/ \E uid \in Uids, name \in Names, last_modified \in {UtcNow(0), UtcNow(1)},
        creation_date \in {None, Some(UtcNow(0))},
        completion_status \in CompletionStatuses, extra \in Extras :
       TaskParsed(uid, name, last_modified, creation_date, completion_status, extra)
  \/ \E new_status \in SyncStatuses : set_sync_status(new_status)
  \/ \E location \in Locations : set_location(location)
  \/ \E repeat \in Repeats : set_repeat(repeat)
  \/ \E description \in Descriptions : set_description(description)
  \/ BuildFrom

Spec == Init /\ [][Next]_vars


(***************************** equality of Events **************************)
BaseEvent ==
  [ kind |-> "Event",
    uid |-> <<"u1">>,
    url |-> ParentUrl \o <<"u1">> \o <<".ics">>,
    sync_status |-> "NotSynced",
    ical_prod_id |-> DefaultProdId,
    creation_date |-> Some(UtcNow(0)),
    last_modified |-> UtcNow(0),
    name |-> <<"Team", " ", "meeting">>,
    full_day |-> FALSE,
    start |-> DateTime(2024, 1, 1, 9, 0, 0),
    end |-> DateTime(2024, 1, 1, 10, 0, 0),
    location |-> Some(<<"Room 1">>),
    repeat |-> Some(<< << <<"FREQ">>, <<"WEEKLY">> >>, << <<"BYDAY">>, <<"MO">> >> >>),
    description |-> None,
    extra_parameters |-> <<>> ]

EqEvents ==
  { BaseEvent,
    [BaseEvent EXCEPT !.uid = <<"u2">>],
    [BaseEvent EXCEPT !.url = RandomUrl],
    [BaseEvent EXCEPT !.sync_status = "Synced"],
    [BaseEvent EXCEPT !.ical_prod_id = OtherProdId],
    [BaseEvent EXCEPT !.creation_date = None],
    [BaseEvent EXCEPT !.last_modified = UtcNow(1)],
    [BaseEvent EXCEPT !.name = <<"Buy milk">>],
    [BaseEvent EXCEPT !.full_day = TRUE],
    [BaseEvent EXCEPT !.start = DateTime(2024, 1, 1, 8, 0, 0)],
    [BaseEvent EXCEPT !.end = DateTime(2024, 1, 1, 11, 0, 0)],
    [BaseEvent EXCEPT !.location = None],
    [BaseEvent EXCEPT !.repeat = None],
    [BaseEvent EXCEPT !.repeat =
        Some(<< << <<"BYDAY">>, <<"MO">> >>, << <<"FREQ">>, <<"WEEKLY">> >> >>)],
    [BaseEvent EXCEPT !.description = Some(<<"Bring", " ", "notes">>)],
    [BaseEvent EXCEPT !.extra_parameters = << IcalProperty("X-EMPTY", None, None) >>],
    [BaseEvent EXCEPT !.name = <<"Buy milk">>,
                      !.extra_parameters = << IcalProperty("X-EMPTY", None, None) >>] }

InitEq ==
  /\ item = NoItem
  /\ out = <<>>
  /\ built = FALSE
  /\ op = "init"
  /\ a \in EqEvents /\ b \in EqEvents /\ c \in EqEvents
  /\ eqres = <<>>

\* a == b, b == a, b == c, a == c, a == a
CompareEvents ==
  /\ eqres = <<>>
  /\ eqres' = [ ab |-> EventEq(a, b), ba |-> EventEq(b, a), bc |-> EventEq(b, c),
                ac |-> EventEq(a, c), aa |-> EventEq(a, a) ]
  /\ op' = "eq"
  /\ UNCHANGED <<item, out, built, a, b, c>>

NextEq == CompareEvents

SpecEq == InitEq /\ [][NextEq]_vars

(***************************** properties **********************************)
Line(name, value) == [name |-> name, params |-> NoParams, value |-> value]
IsEvent == item.kind = "Event"
IsTask == item.kind = "Task"
Opt01(o) == IF IsSome(o) THEN 1 ELSE 0

IsDigit(ch) == \E d \in 1..10 : Digits[d] = ch
DigitVal(ch) == (CHOOSE d \in 1..10 : Digits[d] = ch) - 1
AllDigits(v, i, j) == \A k \in i..j : IsDigit(v[k])
RECURSIVE NumAt(_, _, _)
NumAt(v, i, n) ==
  IF n = 0 THEN 0 ELSE 10 * NumAt(v, i, n - 1) + DigitVal(v[i + n - 1])

DateValue(line, dt) ==
  /\ <<"VALUE", <<"DATE">> >> \in line.params
  /\ Len(line.value) = 8
  /\ AllDigits(line.value, 1, 8)
  /\ NumAt(line.value, 1, 4) = dt.year
  /\ NumAt(line.value, 5, 2) = dt.month
  /\ NumAt(line.value, 7, 2) = dt.day

DateTimeValue(line, dt) ==
  /\ <<"VALUE", <<"DATE">> >> \notin line.params
  /\ Len(line.value) = 16
  /\ AllDigits(line.value, 1, 8)
  /\ line.value[9] = "T"
  /\ AllDigits(line.value, 10, 15)
  /\ line.value[16] = "Z"
  /\ NumAt(line.value, 1, 4) = dt.year
  /\ NumAt(line.value, 5, 2) = dt.month
  /\ NumAt(line.value, 7, 2) = dt.day
  /\ NumAt(line.value, 10, 2) = dt.hour
  /\ NumAt(line.value, 12, 2) = dt.minute
  /\ NumAt(line.value, 14, 2) = dt.second

StartEndEncoded(name, dt) ==
  /\ \E i \in 1..Len(out) : out[i].name = name
  /\ \A i \in 1..Len(out) :
       out[i].name = name =>
         IF item.full_day THEN DateValue(out[i], dt) ELSE DateTimeValue(out[i], dt)

\* C1: DTSTART and DTEND of a built Event are VALUE=DATE lines holding the
\* 8-character date YYYYMMDD of start / end when full_day is true, and
\* parameter-free lines holding the 16-character date-time YYYYMMDDTHHMMSSZ
\* when full_day is false.
C1_DateEncoding ==
  (built /\ IsEvent) =>
    StartEndEncoded("DTSTART", item.start) /\ StartEndEncoded("DTEND", item.end)

HasNeedsAction == \E i \in 1..Len(out) : out[i] = Line("STATUS", <<"NEEDS-ACTION">>)
HasCompleted ==
  \E i, j \in 1..Len(out) :
    /\ i < j
    /\ out[i] = Line("PERCENT-COMPLETE", <<"100">>)
    /\ out[j] = Line("STATUS", <<"COMPLETED">>)

\* C2: the document built from a Task holds exactly one of STATUS:NEEDS-ACTION
\* and (PERCENT-COMPLETE:100 followed later by STATUS:COMPLETED).
C2_ExactlyOneStatus == (built /\ IsTask) => (HasNeedsAction # HasCompleted)

C2_Witness ==
  /\ built /\ IsTask
  /\ item.completion_status.tag = "Uncompleted"
  /\ \E k \in 1..Len(item.extra_parameters) :
       item.extra_parameters[k].name = "PERCENT-COMPLETE"
  /\ HasNeedsAction

StatusLen(cs) == IF cs.tag = "Uncompleted" THEN 1 ELSE 2 + Opt01(cs.date)

\* C3: the document built from a Task is exactly the envelope, UID, DTSTAMP,
\* CREATED (iff creation_date is Some), LAST-MODIFIED (same text as DTSTAMP),
\* SUMMARY, the completion lines in their order, one line per extension
\* property in stored order, and the two END lines.
C3_TaskDocument ==
  (built /\ IsTask) =>
    LET cr == Opt01(item.creation_date)
        cs == item.completion_status
        sl == StatusLen(cs)
        n == Len(item.extra_parameters)
    IN  /\ Len(out) = 10 + cr + sl + n
        /\ out[1] = Line("BEGIN", <<"VCALENDAR">>)
        /\ out[2] = Line("VERSION", <<"2", ".", "0">>)
        /\ out[3] = Line("PRODID", item.ical_prod_id)
        /\ out[4] = Line("BEGIN", <<"VTODO">>)
        /\ out[5] = Line("UID", item.uid)
        /\ out[6] = Line("DTSTAMP", format_date_time(item.last_modified))
        /\ cr = 1 => out[7] = Line("CREATED", format_date_time(Unwrap(item.creation_date)))
        /\ out[7 + cr] = Line("LAST-MODIFIED", out[6].value)
        /\ out[8 + cr] = Line("SUMMARY", item.name)
        /\ cs.tag = "Uncompleted" => out[9 + cr] = Line("STATUS", <<"NEEDS-ACTION">>)
        /\ cs.tag = "Completed" =>
             /\ out[9 + cr] = Line("PERCENT-COMPLETE", <<"100">>)
             /\ IsSome(cs.date) =>
                  out[10 + cr] = Line("COMPLETED", format_date_time(Unwrap(cs.date)))
             /\ out[8 + cr + sl] = Line("STATUS", <<"COMPLETED">>)
        /\ \A k \in 1..n :
             /\ out[8 + cr + sl + k].name = item.extra_parameters[k].name
             /\ out[8 + cr + sl + k].value =
                  (IF IsSome(item.extra_parameters[k].value)
                     THEN Unwrap(item.extra_parameters[k].value) ELSE <<>>)
        /\ out[Len(out) - 1] = Line("END", <<"VTODO">>)
        /\ out[Len(out)] = Line("END", <<"VCALENDAR">>)

C3_Witness ==
  /\ built /\ IsTask
  /\ item.completion_status.tag = "Completed"
  /\ IsSome(item.completion_status.date)
  /\ IsSome(item.creation_date)
  /\ Len(item.extra_parameters) = 2
  /\ Len(out) = 16

\* C4: the document built from an Event is the envelope around one VEVENT
\* with UID, DTSTAMP, CREATED (iff creation_date is Some), DTSTART, DTEND,
\* SUMMARY, LAST-MODIFIED (same text as DTSTAMP), LOCATION, DESCRIPTION and
\* RRULE (each iff set), in this order, none twice and nothing else.
C4_EventDocument ==
  (built /\ IsEvent) =>
    LET cr == Opt01(item.creation_date)
        lo == Opt01(item.location)
        de == Opt01(item.description)
        rr == Opt01(item.repeat)
    IN  /\ Len(out) = 12 + cr + lo + de + rr
        /\ out[1] = Line("BEGIN", <<"VCALENDAR">>)
        /\ out[2] = Line("VERSION", <<"2", ".", "0">>)
        /\ out[3] = Line("PRODID", item.ical_prod_id)
        /\ out[4] = Line("BEGIN", <<"VEVENT">>)
        /\ out[5] = Line("UID", item.uid)
        /\ out[6] = Line("DTSTAMP", format_date_time(item.last_modified))
        /\ cr = 1 => out[7] = Line("CREATED", format_date_time(Unwrap(item.creation_date)))
        /\ out[7 + cr].name = "DTSTART"
        /\ out[8 + cr].name = "DTEND"
        /\ out[9 + cr] = Line("SUMMARY", item.name)
        /\ out[10 + cr] = Line("LAST-MODIFIED", out[6].value)
        /\ lo = 1 => out[11 + cr] = Line("LOCATION", Unwrap(item.location))
        /\ de = 1 => out[11 + cr + lo] = Line("DESCRIPTION", Unwrap(item.description))
        /\ rr = 1 => out[11 + cr + lo + de].name = "RRULE"
        /\ out[Len(out) - 1] = Line("END", <<"VEVENT">>)
        /\ out[Len(out)] = Line("END", <<"VCALENDAR">>)
        /\ \A i, j \in 5..(Len(out) - 2) : out[i].name = out[j].name => i = j

C4_Witness ==
  /\ built /\ IsEvent
  /\ item.creation_date = None
  /\ IsSome(item.location) /\ IsSome(item.description) /\ IsSome(item.repeat)
  /\ item.extra_parameters # <<>>
  /\ Len(out) = 15

ExtValue(prop) == IF IsSome(prop.value) THEN Unwrap(prop.value) ELSE <<>>

\* C5: every extension property stored on an Event appears in the document
\* built from it, verbatim and in stored order.
C5_EventExtrasPreserved ==
  (built /\ IsEvent) =>
    \E f \in [1..Len(item.extra_parameters) -> 1..Len(out)] :
      /\ \A k, l \in DOMAIN f : k < l => f[k] < f[l]
      /\ \A k \in DOMAIN f :
           /\ out[f[k]].name = item.extra_parameters[k].name
           /\ out[f[k]].value = ExtValue(item.extra_parameters[k])

StoredKeys(prop) ==
  IF IsSome(prop.params)
    THEN {Unwrap(prop.params)[i][1] : i \in 1..Len(Unwrap(prop.params))}
    ELSE {}

\* the values stored under one parameter key, in stored order
RECURSIVE KeyValues(_, _)
KeyValues(ps, key) ==
  IF Len(ps) = 0 THEN <<>>
  ELSE (IF ps[1][1] = key THEN ps[1][2] ELSE <<>>) \o KeyValues(Tail(ps), key)

RECURSIVE Joined(_)
Joined(vs) ==
  IF Len(vs) = 0 THEN <<>>
  ELSE IF Len(vs) = 1 THEN vs[1]
  ELSE Joined(SubSeq(vs, 1, Len(vs) - 1)) \o <<";">> \o vs[Len(vs)]

\* C6: every extension property of a Task is emitted once, in stored order,
\* with its name, its value (empty when none was recorded) and, for each
\* stored parameter key, one parameter holding that key's values joined
\* with ';' in stored order.
C6_TaskExtensionProperties ==
  (built /\ IsTask) =>
    LET n == Len(item.extra_parameters)
        first == Len(out) - 2 - n
    IN  /\ first = 8 + Opt01(item.creation_date) + StatusLen(item.completion_status)
        /\ \A k \in 1..n :
             LET prop == item.extra_parameters[k]
                 line == out[first + k]
             IN  /\ line.name = prop.name
                 /\ line.value = ExtValue(prop)
                 /\ {p[1] : p \in line.params} = StoredKeys(prop)
                 /\ \A key \in StoredKeys(prop) :
                      /\ Cardinality({p \in line.params : p[1] = key}) = 1
                      /\ <<key, Joined(KeyValues(Unwrap(prop.params), key))>> \in line.params

RRuleText(rep) ==
  [i \in 1..(IF Len(rep) = 0 THEN 0 ELSE 4 * Len(rep) - 1) |->
     IF i % 4 = 1 THEN rep[(i + 3) \div 4][1][1]
     ELSE IF i % 4 = 2 THEN "="
     ELSE IF i % 4 = 3 THEN rep[(i + 1) \div 4][2][1]
     ELSE ";"]

\* C7: repeat_string is None when no recurrence is set, and otherwise the
\* pairs k=v in insertion order joined by ';' (no leading or trailing
\* separator, nothing re-ordered or dropped); the RRULE line of the built
\* document carries exactly that string.
C7_RepeatString ==
  IsEvent =>
    /\ item.repeat = None => repeat_string(item) = None
    /\ IsSome(item.repeat) => repeat_string(item) = Some(RRuleText(Unwrap(item.repeat)))
    /\ built =>
         /\ Cardinality({i \in 1..Len(out) : out[i].name = "RRULE"}) = Opt01(item.repeat)
         /\ \A i \in 1..Len(out) :
              out[i].name = "RRULE" => out[i] = Line("RRULE", RRuleText(Unwrap(item.repeat)))

C7_Witness ==
  /\ built /\ IsEvent
  /\ item.repeat = Some(<< << <<"FREQ">>, <<"WEEKLY">> >>, << <<"BYDAY">>, <<"MO">> >> >>)
  /\ \E i \in 1..Len(out) :
       out[i] = Line("RRULE", <<"FREQ", "=", "WEEKLY", ";", "BYDAY", "=", "MO">>)

\* C8: a setter leaves uid, url, last_modified, creation_date, name, full_day,
\* start and end as they were and changes no field but its own; sync_status
\* changes only through set_sync_status.
C8_SetterFrame ==
  [][ (IsEvent /\ item'.kind = "Event") =>
        /\ item'.uid = item.uid /\ item'.url = item.url
        /\ item'.last_modified = item.last_modified
        /\ item'.creation_date = item.creation_date
        /\ item'.name = item.name /\ item'.full_day = item.full_day
        /\ item'.start = item.start /\ item'.end = item.end
        /\ item'.ical_prod_id = item.ical_prod_id
        /\ item'.extra_parameters = item.extra_parameters
        /\ op' = "set_sync_status" => item' = [item EXCEPT !.sync_status = item'.sync_status]
        /\ op' = "set_location" => item' = [item EXCEPT !.location = item'.location]
        /\ op' = "set_repeat" => item' = [item EXCEPT !.repeat = item'.repeat]
        /\ op' = "set_description" => item' = [item EXCEPT !.description = item'.description]
        /\ item'.sync_status # item.sync_status => op' = "set_sync_status"
    ]_vars

C8_Witness ==
  /\ IsEvent
  /\ op = "set_description"
  /\ item.sync_status = "Synced"
  /\ IsSome(item.location) /\ IsSome(item.repeat) /\ IsSome(item.description)
  /\ item.extra_parameters = <<>>
  /\ item.url = RandomUrl

C10_EventEquality ==
  eqres # <<>> =>
    /\ eqres.ab <=> ([a EXCEPT !.extra_parameters = b.extra_parameters] = b)
    /\ eqres.aa
    /\ eqres.ab <=> eqres.ba
    /\ (eqres.ab /\ eqres.bc) => eqres.ac

C10_Witness ==
  /\ eqres # <<>>
  /\ eqres.ab /\ a.extra_parameters # b.extra_parameters
  /\ ~eqres.bc
  /\ IsSome(b.repeat) /\ IsSome(c.repeat)
  /\ {Unwrap(b.repeat)[i] : i \in 1..2} = {Unwrap(c.repeat)[i] : i \in 1..2}
  /\ [b EXCEPT !.repeat = c.repeat] = c

====
